---- MODULE Spec2Model ----
(***************************************************************************)
(* A model of the document tree of arbeix-ods (src/unnamed/part_000, the   *)
(* revision of node.ts with lazily cached row and column indices).         *)
(*                                                                         *)
(* The parsed XML is a heap of Items (JavaScript objects, so two Items     *)
(* with equal content are still two Items); the Nodes are a second heap of *)
(* views over them.  Strings that the code inspects character by character *)
(* (formulas, repeat counts) are sequences of one-character strings.       *)
(***************************************************************************)
EXTENDS Integers, Sequences, FiniteSets, TLC

VARIABLES
  items,   \* the Item heap: items[i] is the i-th Item object ever allocated
  nodes,   \* the Node heap: nodes[n] is the n-th Node object ever constructed
  hist     \* the calls made so far, each with its arguments, its outcome and
           \* the two heaps as they were when it was called

vars == <<items, nodes, hist>>

\* The number of calls a behaviour makes.
MaxOps == 2

\* `undefined` where the code keeps a number or a Node reference.
Undef == -1
NoNode == 0

--------------------------------------------------------------------------
(* LET x == v IN F(x), with v evaluated once, before F: the calls below   *)
(* are sequential programs and each step's result is a value.              *)
Let(v, F(_)) == CHOOSE r \in {F(x) : x \in {v}} : TRUE

--------------------------------------------------------------------------
(* Strings *)

Digits == <<"0", "1", "2", "3", "4", "5", "6", "7", "8", "9">>
DigitSet == {Digits[i] : i \in 1..10}
UpperCase == {"A", "B", "C", "D", "E", "F", "G", "H", "I", "J", "K", "L", "M",
              "N", "O", "P", "Q", "R", "S", "T", "U", "V", "W", "X", "Y", "Z"}

DigitValue(c) == (CHOOSE i \in 1..10 : Digits[i] = c) - 1

\* parseInt on a string of decimal digits
RECURSIVE parseInt(_)
parseInt(s) ==
  IF Len(s) = 0 THEN 0
  ELSE 10 * (CHOOSE v \in {parseInt(t) : t \in {SubSeq(s, 1, Len(s) - 1)}} : TRUE)
         + DigitValue(s[Len(s)])

\* `${n}` for an integer n
RECURSIVE toString(_)
toString(n) ==
  IF n < 0 THEN <<"-">> \o toString(0 - n)
  ELSE IF n < 10 THEN <<Digits[n + 1]>>
  ELSE toString(n \div 10) \o <<Digits[(n % 10) + 1]>>

--------------------------------------------------------------------------
(* Items *)

ATTR_FORMULA == "table:formula"
ATTR_VALUE == "office:value"
ATTR_STRING_VALUE == "office:string-value"
ATTR_VALUE_TYPE == "office:value-type"
ATTR_CALCEXT_TYPE == "calcext:value-type"
ATTR_ROWS_REPEATED == "table:number-rows-repeated"
ATTR_COLS_REPEATED == "table:number-columns-repeated"
ATTR_NAME == "table:name"

TAG_SPREADSHEET == "office:spreadsheet"
TAG_TABLE == "table:table"
TAG_ROW == "table:table-row"
TAG_CELL == "table:table-cell"

NoAttrib == [k \in {} |-> <<>>]

\* An Item: at most one real tag key with its child Items, an optional
\* attribute map under ":@", an optional text under "#text".
Element(key, hasAttr, attr, kids) ==
  [hasKey |-> TRUE, key |-> key, kids |-> kids,
   hasText |-> FALSE, text |-> <<>>,
   hasAttr |-> hasAttr, attr |-> attr]

TextItem(text) ==
  [hasKey |-> FALSE, key |-> "", kids |-> <<>>,
   hasText |-> TRUE, text |-> text,
   hasAttr |-> FALSE, attr |-> NoAttrib]

\* realKey(Object.keys(item)) ?? ""
realKey(it) == IF it.hasKey THEN it.key ELSE ""

\* item[name] !== undefined, and item[name]
HasProp(it, name) == it.hasKey /\ it.key = name
Prop(it, name) == it.kids

\* The class that create() instantiates for an Item: the first key of
\* KNOWN_TAGS that is a property of the Item, else the generic Node.
KNOWN_TAGS(it) ==
  IF it.hasText THEN "TextNode"
  ELSE IF HasProp(it, TAG_SPREADSHEET) THEN "Spreadsheet"
  ELSE IF HasProp(it, TAG_TABLE) THEN "Table"
  ELSE IF HasProp(it, TAG_ROW) THEN "Row"
  ELSE IF HasProp(it, TAG_CELL) THEN "Cell"
  ELSE "Node"

--------------------------------------------------------------------------
(* Node construction *)

RECURSIVE Construct(_, _, _, _, _)
RECURSIVE ConstructChildren(_, _, _, _, _)

\* new <cls>(item, parent): the Node heap with the new Node at Len(ns) + 1 and
\* the Nodes of its descendants after it.
Construct(its, ns, item, parent, cls) ==
  LET name == realKey(its[item])
      rec == [item |-> item, name |-> name, parent |-> parent,
              children |-> <<>>, cls |-> cls,
              rowIndex |-> Undef, colIndex |-> Undef]
      kids == IF HasProp(its[item], name) THEN Prop(its[item], name) ELSE <<>>
  IN Let(Append(ns, rec), LAMBDA ns1 :
       ConstructChildren(its, ns1, Len(ns1), kids, 1))

\* this.children = items.map(this.create)
ConstructChildren(its, ns, me, kids, i) ==
  IF i > Len(kids) THEN ns
  ELSE Let(Construct(its, ns, kids[i], me, KNOWN_TAGS(its[kids[i]])), LAMBDA ns2 :
       Let([ns2 EXCEPT ![me].children = Append(@, Len(ns) + 1)], LAMBDA ns3 :
         ConstructChildren(its, ns3, me, kids, i + 1)))

\* this.create(item): the heap with the new Node, which is Len(ns) + 1
create(its, ns, item, parent) ==
  Construct(its, ns, item, parent, KNOWN_TAGS(its[item]))

--------------------------------------------------------------------------
(* The result of a call: the two heaps, the exception thrown ("" for none) *)
(* and the value returned (a number or a Node, Undef for undefined).       *)

Return(its, ns, ret) == [items |-> its, nodes |-> ns, err |-> "", ret |-> ret]
Throw(its, ns, err) == [items |-> its, nodes |-> ns, err |-> err, ret |-> Undef]

TYPE_ERROR == "TypeError"

--------------------------------------------------------------------------
(* Node *)

\* get attrib
attrib(its, ns, n) ==
  IF its[ns[n].item].hasAttr THEN its[ns[n].item].attr ELSE NoAttrib

HasAttrib(its, ns, n, key) == key \in DOMAIN attrib(its, ns, n)

Put(a, key, val) ==
  [k \in DOMAIN a \cup {key} |-> IF k = key THEN val ELSE a[k]]
Remove(a, key) == [k \in DOMAIN a \ {key} |-> a[k]]

setAttrib(its, ns, n, key, val) ==
  Return([its EXCEPT ![ns[n].item].hasAttr = TRUE,
                     ![ns[n].item].attr = Put(attrib(its, ns, n), key, val)],
         ns, n)

\* deleteAttrib without `if (this.item[":@"] === undefined) this.item[":@"] = {}`
deleteAttribOfExistingMap(its, ns, n, key) ==
  IF its[ns[n].item].hasAttr
  THEN Return([its EXCEPT ![ns[n].item].attr = Remove(@, key)], ns, n)
  ELSE Return(its, ns, n)

deleteAttrib(its, ns, n, key) ==
  Return([its EXCEPT ![ns[n].item].hasAttr = TRUE,
                     ![ns[n].item].attr = Remove(attrib(its, ns, n), key)],
         ns, n)

\* get contained: this.item[this.name], undefined when the Item has no such key
HasContained(its, ns, n) == HasProp(its[ns[n].item], ns[n].name)
contained(its, ns, n) == Prop(its[ns[n].item], ns[n].name)

clear(its, ns, n) ==
  IF ~HasContained(its, ns, n) THEN Throw(its, ns, TYPE_ERROR)
  ELSE Return([its EXCEPT ![ns[n].item].kids = <<>>],
              [ns EXCEPT ![n].children = <<>>], n)

\* The child Item and the child Node are appended at the same position.
AppendChild(its, ns, n, newItem) ==
  Let([Append(its, newItem) EXCEPT ![ns[n].item].kids = Append(@, Len(its) + 1)],
      LAMBDA its2 :
  Let(create(its2, ns, Len(its2), n), LAMBDA ns2 :
    Return(its2, [ns2 EXCEPT ![n].children = Append(@, Len(ns) + 1)], Len(ns) + 1)))

addNode(its, ns, n, name) ==
  IF ~HasContained(its, ns, n) THEN Throw(its, ns, TYPE_ERROR)
  ELSE AppendChild(its, ns, n, Element(name, FALSE, NoAttrib, <<>>))

addText(its, ns, n, text) ==
  IF ~HasContained(its, ns, n) THEN Throw(its, ns, TYPE_ERROR)
  ELSE AppendChild(its, ns, n, TextItem(text))

--------------------------------------------------------------------------
(* Sequences as JavaScript arrays (positions count from 0) *)

\* array.indexOf(x): the first position holding x, -1 when there is none
indexOf(seq, x) ==
  IF \E i \in 1..Len(seq) : seq[i] = x
  THEN (CHOOSE i \in 1..Len(seq) : seq[i] = x /\ \A j \in 1..(i - 1) : seq[j] # x) - 1
  ELSE -1

\* array.splice(at, 0, x) and array.splice(at, 1)
SpliceIn(seq, at, x) == SubSeq(seq, 1, at) \o <<x>> \o SubSeq(seq, at + 1, Len(seq))
SpliceOut(seq, at) == SubSeq(seq, 1, at) \o SubSeq(seq, at + 2, Len(seq))

\* node.all(key): the children named key, in document order
all(ns, n, key) == SelectSeq(ns[n].children, LAMBDA c : ns[c].name = key)

--------------------------------------------------------------------------
(* Node: lookup and copy *)

\* this.children.find((i) => i.name == key)!: undefined when no child matches
single(ns, n, key) ==
  IF \E i \in 1..Len(ns[n].children) : ns[ns[n].children[i]].name = key
  THEN ns[n].children[CHOOSE i \in 1..Len(ns[n].children) :
                        /\ ns[ns[n].children[i]].name = key
                        /\ \A j \in 1..(i - 1) : ns[ns[n].children[j]].name # key]
  ELSE Undef

RECURSIVE DigFrom(_, _, _, _, _)
\* keys.forEach((key) => (it = it.single(key))): calling single on an
\* undefined `it` throws
DigFrom(its, ns, it, keys, i) ==
  IF i > Len(keys) THEN Return(its, ns, it)
  ELSE IF it = Undef THEN Throw(its, ns, TYPE_ERROR)
  ELSE Let(single(ns, it, keys[i]), LAMBDA next :
         DigFrom(its, ns, next, keys, i + 1))

dig(its, ns, n, keys) == DigFrom(its, ns, n, keys, 1)

\* Document.spreadsheet()
spreadsheet(its, ns, n) ==
  dig(its, ns, n, <<"office:document-content", "office:body", "office:spreadsheet">>)

RECURSIVE structuredClone(_, _)
RECURSIVE CloneChildren(_, _, _, _)

\* structuredClone(item): the Item heap with the copy at Len(its) + 1 and the
\* copies of its descendants after it
structuredClone(its, item) ==
  Let(Append(its, [its[item] EXCEPT !.kids = <<>>]), LAMBDA its1 :
    CloneChildren(its1, Len(its1), its[item].kids, 1))

CloneChildren(its, me, kids, i) ==
  IF i > Len(kids) THEN its
  ELSE Let(structuredClone(its, kids[i]), LAMBDA its2 :
       Let([its2 EXCEPT ![me].kids = Append(@, Len(its) + 1)], LAMBDA its3 :
         CloneChildren(its3, me, kids, i + 1)))

NOT_IN_PARENT == "This node isn't in its own parent?"

\* Object.defineProperties(this, { parent, item, name, children })
Redefine(ns, a, parent, item, name, children) ==
  [ns EXCEPT ![a].parent = parent, ![a].item = item,
             ![a].name = name, ![a].children = children]

\* array[at] = x
SetAt(seq, at, x) ==
  IF at + 1 <= Len(seq) THEN [seq EXCEPT ![at + 1] = x] ELSE Append(seq, x)

\* copyContentsFrom after the properties are redefined: ns is the heap with
\* this.parent already other.parent
SpliceClone(its, ns, a, clone) ==
  IF ns[a].parent = NoNode THEN Throw(its, ns, TYPE_ERROR)
  ELSE Let(indexOf(ns[ns[a].parent].children, a), LAMBDA parentIndex :
         IF parentIndex = -1 THEN Throw(its, ns, NOT_IN_PARENT)
         ELSE IF ~HasContained(its, ns, ns[a].parent) THEN Throw(its, ns, TYPE_ERROR)
         ELSE Return([its EXCEPT ![ns[ns[a].parent].item].kids =
                                    SetAt(@, parentIndex, clone)],
                     ns, a))

copyContentsFrom(its, ns, a, other) ==
  Let(structuredClone(its, ns[other].item), LAMBDA its2 :
    \* realKey(Object.keys(clone)) is undefined for a text Item, and
    \* clone[undefined] has no map()
    IF ~its2[Len(its) + 1].hasKey THEN Throw(its, ns, TYPE_ERROR)
    ELSE Let(ConstructChildren(its2, [ns EXCEPT ![a].children = <<>>], a,
                               its2[Len(its) + 1].kids, 1), LAMBDA ns2 :
         Let(Redefine(ns2, a, ns[other].parent, Len(its) + 1,
                      realKey(its2[Len(its) + 1]), ns2[a].children), LAMBDA ns3 :
           SpliceClone(its2, ns3, a, Len(its) + 1))))

--------------------------------------------------------------------------
(* Formulas *)

RECURSIVE RunEnd(_, _, _)
\* The last position of the longest run of characters of S that starts at
\* position i of s (i - 1 when s[i] is not in S).
RunEnd(s, i, S) ==
  IF i <= Len(s) /\ s[i] \in S THEN RunEnd(s, i + 1, S) ELSE i - 1

\* (?<=[\[:]) at position i
LookBehind(s, i) == i > 1 /\ s[i - 1] \in {"[", ":"}

\* (?=[\]:]) after position d
LookAhead(s, d) == d + 1 <= Len(s) /\ s[d + 1] \in {"]", ":"}

\* FORMULA_REFERENCE tried at position i of s.  [A-Z]+ and \d+ are greedy and
\* giving a character back never helps (a letter cannot start \d+, a digit is
\* neither "]" nor ":"), so the only candidate is the longest run of each.
FORMULA_REFERENCE(s, i) ==
  Let(RunEnd(s, i + 1, UpperCase), LAMBDA c :
  Let(RunEnd(s, c + 1, DigitSet), LAMBDA d :
    IF /\ LookBehind(s, i)
       /\ s[i] = "."
       /\ c >= i + 1
       /\ d >= c + 1
       /\ LookAhead(s, d)
    THEN [found |-> TRUE, col |-> SubSeq(s, i + 1, c),
          row |-> SubSeq(s, c + 1, d), last |-> d]
    ELSE [found |-> FALSE, col |-> <<>>, row |-> <<>>, last |-> i]))

\* The boundary test on the row number as written, without the - 1
ShiftedFromWrittenRow(row, fromIndex) == parseInt(row) > fromIndex

\* if (parseInt(row) - 1 > fromIndex)
Shifted(row, fromIndex) == parseInt(row) - 1 > fromIndex

\* The replacer without its boundary test: every match is shifted
ReplacerOfEveryMatch(match, col, row, fromIndex, adjust) ==
  <<".">> \o col \o toString(parseInt(row) + adjust)

\* The replacer function of adjustFormulae
Replacer(match, col, row, fromIndex, adjust) ==
  IF Shifted(row, fromIndex)
  THEN <<".">> \o col \o toString(parseInt(row) + adjust)
  ELSE match

RECURSIVE replaceAll(_, _, _, _)
\* formula.replaceAll(FORMULA_REFERENCE, replacer), from position i on
replaceAll(s, i, fromIndex, adjust) ==
  IF i > Len(s) THEN <<>>
  ELSE Let(FORMULA_REFERENCE(s, i), LAMBDA m :
         IF m.found
         THEN Replacer(SubSeq(s, i, m.last), m.col, m.row, fromIndex, adjust)
                \o replaceAll(s, m.last + 1, fromIndex, adjust)
         ELSE <<s[i]>> \o replaceAll(s, i + 1, fromIndex, adjust))

--------------------------------------------------------------------------
(* Cell *)

setType(its, ns, c, type) ==
  Let(setAttrib(its, ns, c, ATTR_VALUE_TYPE, type), LAMBDA a :
    setAttrib(a.items, a.nodes, c, ATTR_CALCEXT_TYPE, type))

\* setFormula without .deleteAttrib("office:value")
setFormulaKeepingValue(its, ns, c, formula, hasType, type) ==
  Let(IF hasType THEN setType(its, ns, c, type) ELSE Return(its, ns, c), LAMBDA t :
  Let(setAttrib(t.items, t.nodes, c, ATTR_FORMULA, formula), LAMBDA f :
  Let(deleteAttrib(f.items, f.nodes, c, ATTR_STRING_VALUE), LAMBDA s :
    clear(s.items, s.nodes, c))))

\* setFormula(formula, type?); hasType is whether a (non-empty) type is given
setFormula(its, ns, c, formula, hasType, type) ==
  Let(IF hasType THEN setType(its, ns, c, type) ELSE Return(its, ns, c), LAMBDA t :
  Let(setAttrib(t.items, t.nodes, c, ATTR_FORMULA, formula), LAMBDA f :
  Let(deleteAttrib(f.items, f.nodes, c, ATTR_VALUE), LAMBDA v :
  Let(deleteAttrib(v.items, v.nodes, c, ATTR_STRING_VALUE), LAMBDA s :
    clear(s.items, s.nodes, c)))))

\* if (formula): the attribute is there and is not the empty string
HasFormula(its, ns, c) ==
  HasAttrib(its, ns, c, ATTR_FORMULA) /\ Len(attrib(its, ns, c)[ATTR_FORMULA]) > 0

\* adjustFormulae without `if (formula === replaced) return`
adjustFormulaeAlwaysSet(its, ns, c, fromIndex, adjust) ==
  IF ~HasFormula(its, ns, c) THEN Return(its, ns, Undef)
  ELSE Let(attrib(its, ns, c)[ATTR_FORMULA], LAMBDA formula :
       Let(replaceAll(formula, 1, fromIndex, adjust), LAMBDA replaced :
       Let(setFormula(its, ns, c, replaced, FALSE, <<>>), LAMBDA r :
         IF r.err # "" THEN r ELSE Return(r.items, r.nodes, Undef))))

adjustFormulae(its, ns, c, fromIndex, adjust) ==
  IF ~HasFormula(its, ns, c) THEN Return(its, ns, Undef)
  ELSE Let(attrib(its, ns, c)[ATTR_FORMULA], LAMBDA formula :
       Let(replaceAll(formula, 1, fromIndex, adjust), LAMBDA replaced :
         IF formula = replaced THEN Return(its, ns, Undef)
         ELSE Let(setFormula(its, ns, c, replaced, FALSE, <<>>), LAMBDA r :
                IF r.err # "" THEN r ELSE Return(r.items, r.nodes, Undef))))

--------------------------------------------------------------------------
(* Dirty marks *)

\* markAsDirty: Row and Cell clear their own cached index, the rest do nothing
markAsDirty(ns, n) ==
  IF ns[n].cls = "Row" THEN [ns EXCEPT ![n].rowIndex = Undef]
  ELSE IF ns[n].cls = "Cell" THEN [ns EXCEPT ![n].colIndex = Undef]
  ELSE ns

RECURSIVE propagateDirty(_, _)
RECURSIVE PropagateDirtyChildren(_, _, _)

propagateDirty(ns, n) ==
  Let(markAsDirty(ns, n), LAMBDA ns1 :
    PropagateDirtyChildren(ns1, ns1[n].children, 1))

PropagateDirtyChildren(ns, children, i) ==
  IF i > Len(children) THEN ns
  ELSE Let(propagateDirty(ns, children[i]), LAMBDA ns1 :
         PropagateDirtyChildren(ns1, children, i + 1))

--------------------------------------------------------------------------
(* Row *)

\* parseInt(row.attrib["table:number-rows-repeated"] ?? "1")
RowsRepeated(its, ns, r) ==
  IF HasAttrib(its, ns, r, ATTR_ROWS_REPEATED)
  THEN parseInt(attrib(its, ns, r)[ATTR_ROWS_REPEATED])
  ELSE 1

\* row.rowIndex = sum: the private setter of a Row; a Cell has a getter of that
\* name and no setter, so the assignment throws there; on any other Node it
\* makes an own property.
CanSetRowIndex(ns, r) == ns[r].cls # "Cell"

RECURSIVE AssignRowIndices(_, _, _, _, _)
\* the loop of updateRowIndex over this.table.rows
AssignRowIndices(its, ns, rows, i, sum) ==
  IF i > Len(rows) THEN Return(its, ns, Undef)
  ELSE IF ~CanSetRowIndex(ns, rows[i]) THEN Throw(its, ns, TYPE_ERROR)
  ELSE Let([ns EXCEPT ![rows[i]].rowIndex = sum], LAMBDA ns1 :
       Let(sum + RowsRepeated(its, ns, rows[i]), LAMBDA sum1 :
         AssignRowIndices(its, ns1, rows, i + 1, sum1)))

\* get table: this.parent as Table
table(ns, r) == ns[r].parent

\* this.table.rows is a getter of Table alone: on any other parent it is
\* undefined, and without a parent this.table is.
HasRows(ns, t) == t # NoNode /\ ns[t].cls = "Table"

updateRowIndex(its, ns, r) ==
  IF ~HasRows(ns, table(ns, r)) THEN Throw(its, ns, TYPE_ERROR)
  ELSE Let(all(ns, table(ns, r), TAG_ROW), LAMBDA rows :
         AssignRowIndices(its, ns, rows, 1, 0))

\* get rowIndex of a Row
rowIndex(its, ns, r) ==
  IF ns[r].rowIndex = Undef
  THEN Let(updateRowIndex(its, ns, r), LAMBDA u :
         IF u.err # "" THEN u ELSE Return(its, u.nodes, u.nodes[r].rowIndex))
  ELSE Return(its, ns, ns[r].rowIndex)

--------------------------------------------------------------------------
(* Table *)

INVALID_INDEX == "Invalid index to insert to"
NOT_IN_TABLE == "Row to insert at not actually in table?"
RANGE_ERROR == "RangeError"

RECURSIVE ReadRowIndex(_, _, _, _)
\* node.rowIndex for a Node of any class: the getter of a Row; the getter of
\* a Cell, which asks its parent (this.row.rowIndex) and overflows the stack
\* when the parent links loop; otherwise the own property, if one was made.
ReadRowIndex(its, ns, n, asked) ==
  IF ns[n].cls = "Row" THEN rowIndex(its, ns, n)
  ELSE IF ns[n].cls = "Cell"
  THEN IF ns[n].parent = NoNode THEN Throw(its, ns, TYPE_ERROR)
       ELSE IF ns[n].parent \in asked \cup {n} THEN Throw(its, ns, RANGE_ERROR)
       ELSE Let(asked \cup {n}, LAMBDA asked1 :
              ReadRowIndex(its, ns, ns[n].parent, asked1))
  ELSE Return(its, ns, ns[n].rowIndex)

RECURSIVE FindRow(_, _, _, _, _, _)
\* this.forEachRow((row) => { if (row.rowIndex === index) found = row; }):
\* every row's index is read, the last match is kept.
FindRow(its, ns, rows, i, index, found) ==
  IF i > Len(rows) THEN Return(its, ns, found)
  ELSE Let(ReadRowIndex(its, ns, rows[i], {}), LAMBDA r :
         IF r.err # "" THEN r
         ELSE Let(IF r.ret = index THEN rows[i] ELSE found, LAMBDA found1 :
                FindRow(its, r.nodes, rows, i + 1, index, found1)))

RECURSIVE AdjustCells(_, _, _, _, _, _)
RECURSIVE AdjustRows(_, _, _, _, _, _)

\* row.forEachCell((c) => c.adjustFormulae(fromIndex, adjust)); only a Cell
\* has adjustFormulae
AdjustCells(its, ns, cells, i, fromIndex, adjust) ==
  IF i > Len(cells) THEN Return(its, ns, Undef)
  ELSE IF ns[cells[i]].cls # "Cell" THEN Throw(its, ns, TYPE_ERROR)
  ELSE Let(adjustFormulae(its, ns, cells[i], fromIndex, adjust), LAMBDA r :
         IF r.err # "" THEN r
         ELSE AdjustCells(r.items, r.nodes, cells, i + 1, fromIndex, adjust))

\* this.forEachCell((c) => c.adjustFormulae(fromIndex, adjust)) over the rows
\* listed before the first cell is touched; only a Row (or a Table, through
\* its own rows) has forEachCell
AdjustRows(its, ns, rows, i, fromIndex, adjust) ==
  IF i > Len(rows) THEN Return(its, ns, Undef)
  ELSE Let(IF ns[rows[i]].cls = "Row"
           THEN Let(all(ns, rows[i], TAG_CELL), LAMBDA cells :
                  AdjustCells(its, ns, cells, 1, fromIndex, adjust))
           ELSE IF ns[rows[i]].cls = "Table"
           THEN Let(all(ns, rows[i], TAG_ROW), LAMBDA inner :
                  AdjustRows(its, ns, inner, 1, fromIndex, adjust))
           ELSE Throw(its, ns, TYPE_ERROR),
           LAMBDA r :
         IF r.err # "" THEN r
         ELSE AdjustRows(r.items, r.nodes, rows, i + 1, fromIndex, adjust))

\* const newRow = new Row(newItem, this.parent)
NewRow(its, ns, t, item) == Construct(its, ns, item, ns[t].parent, "Row")

\* SpliceRowIn with the new Node pushed at the end of the child list instead
\* of spliced at the position of its Item
SpliceRowInPushed(its, ns, t, actualIndex, item, row) ==
  [items |-> [its EXCEPT ![ns[t].item].kids = SpliceIn(@, actualIndex, item)],
   nodes |-> [ns EXCEPT ![t].children = Append(@, row)]]

\* SpliceRowIn with the new row spliced in after the row found, not before it
SpliceRowInAfter(its, ns, t, actualIndex, item, row) ==
  [items |-> [its EXCEPT ![ns[t].item].kids = SpliceIn(@, actualIndex + 1, item)],
   nodes |-> [ns EXCEPT ![t].children = SpliceIn(@, actualIndex + 1, row)]]

\* this.contained.splice(actualIndex, 0, newItem);
\* this.children.splice(actualIndex, 0, newRow)
SpliceRowIn(its, ns, t, actualIndex, item, row) ==
  [items |-> [its EXCEPT ![ns[t].item].kids = SpliceIn(@, actualIndex, item)],
   nodes |-> [ns EXCEPT ![t].children = SpliceIn(@, actualIndex, row)]]

\* this.contained.splice(actualIndex, 1); this.children.splice(actualIndex, 1)
SpliceRowOut(its, ns, t, actualIndex) ==
  [items |-> [its EXCEPT ![ns[t].item].kids = SpliceOut(@, actualIndex)],
   nodes |-> [ns EXCEPT ![t].children = SpliceOut(@, actualIndex)]]

\* insertRow from the splice on: the row to insert before is at actualIndex
InsertRowAt(its, ns, t, index, actualIndex) ==
  Let(all(ns, t, TAG_ROW), LAMBDA rows :
  Let(AdjustRows(its, ns, rows, 1, index, 1), LAMBDA a :
    IF a.err # "" THEN a
    ELSE Let(Append(a.items, Element(TAG_ROW, FALSE, NoAttrib, <<>>)), LAMBDA its2 :
         Let(NewRow(its2, a.nodes, t, Len(its2)), LAMBDA ns2 :
         Let(SpliceRowIn(its2, ns2, t, actualIndex, Len(its2), Len(a.nodes) + 1),
             LAMBDA s :
         Let(propagateDirty(s.nodes, t), LAMBDA ns3 :
           Return(s.items, ns3, Len(a.nodes) + 1)))))))

insertRow(its, ns, t, index) ==
  Let(all(ns, t, TAG_ROW), LAMBDA rows :
  Let(FindRow(its, ns, rows, 1, index, NoNode), LAMBDA f :
    IF f.err # "" THEN f
    ELSE IF f.ret = NoNode THEN Throw(its, f.nodes, INVALID_INDEX)
    ELSE IF ~HasContained(its, f.nodes, t) THEN Throw(its, f.nodes, TYPE_ERROR)
    ELSE Let(indexOf(contained(its, f.nodes, t), f.nodes[f.ret].item),
             LAMBDA actualIndex :
           IF actualIndex = -1 THEN Throw(its, f.nodes, NOT_IN_TABLE)
           ELSE InsertRowAt(its, f.nodes, t, index, actualIndex))))

\* deleteRow from the splice on: the row to delete is at actualIndex
DeleteRowAt(its, ns, t, index, actualIndex) ==
  Let(all(ns, t, TAG_ROW), LAMBDA rows :
  Let(AdjustRows(its, ns, rows, 1, index, -1), LAMBDA a :
    IF a.err # "" THEN a
    ELSE Let(SpliceRowOut(a.items, a.nodes, t, actualIndex), LAMBDA s :
         Let(propagateDirty(s.nodes, t), LAMBDA ns3 :
           Return(s.items, ns3, Undef)))))

deleteRow(its, ns, t, index) ==
  Let(all(ns, t, TAG_ROW), LAMBDA rows :
  Let(FindRow(its, ns, rows, 1, index, NoNode), LAMBDA f :
    IF f.err # "" THEN f
    ELSE IF f.ret = NoNode THEN Return(its, f.nodes, Undef)
    ELSE IF ~HasContained(its, f.nodes, t) THEN Throw(its, f.nodes, TYPE_ERROR)
    ELSE Let(indexOf(contained(its, f.nodes, t), f.nodes[f.ret].item),
             LAMBDA actualIndex :
           IF actualIndex = -1 THEN Return(its, f.nodes, Undef)
           ELSE DeleteRowAt(its, f.nodes, t, index, actualIndex))))

--------------------------------------------------------------------------
(* Documents the behaviours start from *)

\* A spreadsheet of one table whose rows carry the repeat counts 2, -, 3, -:
\* the first row holds a formula cell with a cached value and a text child,
\* the second a plain cell.
TableDoc ==
  << Element("", FALSE, NoAttrib, <<2>>),
     Element(TAG_SPREADSHEET, FALSE, NoAttrib, <<3>>),
     Element(TAG_TABLE, TRUE, (ATTR_NAME :> <<"T">>), <<4, 5, 6, 7>>),
     Element(TAG_ROW, TRUE, (ATTR_ROWS_REPEATED :> <<"2">>), <<8>>),
     Element(TAG_ROW, FALSE, NoAttrib, <<9>>),
     Element(TAG_ROW, TRUE, (ATTR_ROWS_REPEATED :> <<"3">>), <<>>),
     Element(TAG_ROW, FALSE, NoAttrib, <<>>),
     Element(TAG_CELL, TRUE,
             (ATTR_FORMULA :> <<"[", ".", "A", "5", "]", "+", "[", ".", "B", "2", "]">>)
               @@ (ATTR_VALUE :> <<"7">>),
             <<10>>),
     Element(TAG_CELL, FALSE, NoAttrib, <<>>),
     TextItem(<<"7">>) >>

Documents == {TableDoc}

\* A whole document, with two tables of one name, and a document without
\* the office:body level.
OfficeDoc ==
  << Element("", FALSE, NoAttrib, <<2>>),
     Element("office:document-content", FALSE, NoAttrib, <<3, 4>>),
     Element("office:scripts", FALSE, NoAttrib, <<>>),
     Element("office:body", FALSE, NoAttrib, <<5>>),
     Element(TAG_SPREADSHEET, FALSE, NoAttrib, <<6, 7>>),
     Element(TAG_TABLE, TRUE, (ATTR_NAME :> <<"T">>), <<8, 9>>),
     Element(TAG_TABLE, TRUE, (ATTR_NAME :> <<"T">>), <<>>),
     Element("table:table-column", FALSE, NoAttrib, <<>>),
     Element(TAG_ROW, FALSE, NoAttrib, <<>>) >>

MalformedDoc ==
  << Element("", FALSE, NoAttrib, <<2>>),
     Element("office:document-content", FALSE, NoAttrib, <<3>>),
     Element("office:scripts", FALSE, NoAttrib, <<>>) >>

NavDocuments == {OfficeDoc, MalformedDoc}

\* The formulas of the cell documents: one or two terms joined by "+", a
\* term being a reference [.A5], a range [.A5:.B9], a reference outside
\* brackets .A5 or an absolute one [.$A$5].
FormulaRows == {1, 2, 5, 9, 10}

Numeral(n) ==
  << <<"0">>, <<"1">>, <<"2">>, <<"3">>, <<"4">>, <<"5">>, <<"6">>, <<"7">>,
     <<"8">>, <<"9">>, <<"1", "0">>, <<"1", "1">>, <<"1", "2">> >>[n + 1]

Term(kind, col, row, col2, row2) ==
  [kind |-> kind, col |-> col, row |-> row, col2 |-> col2, row2 |-> row2]

RefTerms(cols) == {Term("ref", c, r, <<>>, 0) : c \in cols, r \in FormulaRows}
BareTerms(cols) == {Term("bare", c, r, <<>>, 0) : c \in cols, r \in FormulaRows}
AbsTerms == {Term("abs", <<"A">>, r, <<>>, 0) : r \in FormulaRows}
RangeTerms ==
  {Term("range", <<"A">>, r, <<"B">>, r2) : r \in FormulaRows, r2 \in FormulaRows}

FormulaShapes ==
  {<<t>> : t \in RefTerms({<<"A">>, <<"B">>, <<"A", "B">>}) \cup BareTerms({<<"A">>})
                   \cup AbsTerms \cup RangeTerms}
    \cup {<<t, u>> : t \in RefTerms({<<"A">>}) \cup BareTerms({<<"A">>}),
                     u \in RefTerms({<<"B">>}) \cup BareTerms({<<"B">>})}

RenderTerm(t) ==
  IF t.kind = "ref" THEN <<"[", ".">> \o t.col \o Numeral(t.row) \o <<"]">>
  ELSE IF t.kind = "bare" THEN <<".">> \o t.col \o Numeral(t.row)
  ELSE IF t.kind = "abs" THEN <<"[", ".", "$">> \o t.col \o <<"$">> \o Numeral(t.row) \o <<"]">>
  ELSE <<"[", ".">> \o t.col \o Numeral(t.row) \o <<":", ".">>
         \o t.col2 \o Numeral(t.row2) \o <<"]">>

Render(sh) ==
  IF Len(sh) = 1 THEN RenderTerm(sh[1])
  ELSE RenderTerm(sh[1]) \o <<"+">> \o RenderTerm(sh[2])

\* A table of one row: a cell with the formula, a cached value, a cached
\* string value and a text child, and a cell with a value and no formula.
CellDoc(formula) ==
  << Element("", FALSE, NoAttrib, <<2>>),
     Element(TAG_TABLE, FALSE, NoAttrib, <<3>>),
     Element(TAG_ROW, FALSE, NoAttrib, <<4, 5>>),
     Element(TAG_CELL, TRUE,
             (ATTR_FORMULA :> formula) @@ (ATTR_VALUE :> <<"7">>)
               @@ (ATTR_STRING_VALUE :> <<"7">>) @@ (ATTR_VALUE_TYPE :> <<"f">>),
             <<6>>),
     Element(TAG_CELL, TRUE, (ATTR_VALUE :> <<"7">>), <<7>>),
     TextItem(<<"7">>),
     TextItem(<<"7">>) >>

CellDocuments == {CellDoc(Render(sh)) : sh \in FormulaShapes}

\* new Document(root): the wrapper Item {"": root} is Item 1
Document(its) == Construct(its, <<>>, 1, NoNode, "Document")

--------------------------------------------------------------------------
(* Calls *)

\* One call by the caller: op is the method, self the Node it is called on,
\* a its arguments, r its result.
NoArgs == [arg |-> 0, arg2 |-> 0, str |-> "", keys |-> <<>>]

Call(op, self, a, r) ==
  /\ items' = r.items
  /\ nodes' = r.nodes
  /\ hist' = Append(hist, [op |-> op, self |-> self,
                           arg |-> a.arg, arg2 |-> a.arg2,
                           str |-> a.str, keys |-> a.keys,
                           err |-> r.err, ret |-> r.ret,
                           items |-> items, nodes |-> nodes])

NodeIds == 1..Len(nodes)

NewTags == {TAG_ROW, "text:p"}

Init ==
  /\ items \in Documents
  /\ nodes = Document(items)
  /\ hist = <<>>

AddNode ==
  /\ Len(hist) < MaxOps
  /\ \E n \in NodeIds, name \in NewTags :
      \E r \in {addNode(items, nodes, n, name)} :
         Call("addNode", n, [NoArgs EXCEPT !.str = name], r)

AddText ==
  /\ Len(hist) < MaxOps
  /\ \E n \in NodeIds :
      \E r \in {addText(items, nodes, n, <<"x">>)} :
         Call("addText", n, NoArgs, r)

Clear ==
  /\ Len(hist) < MaxOps
  /\ \E n \in NodeIds :
      \E r \in {clear(items, nodes, n)} :
         Call("clear", n, NoArgs, r)

Tables == {n \in NodeIds : nodes[n].cls = "Table"}
Rows == {n \in NodeIds : nodes[n].cls = "Row"}
Cells == {n \in NodeIds : nodes[n].cls = "Cell"}

\* The logical indices a caller asks for
MaxIndex == 7
Indices == 0..MaxIndex

InsertRow ==
  /\ Len(hist) < MaxOps
  /\ \E t \in Tables, index \in Indices :
      \E r \in {insertRow(items, nodes, t, index)} :
         Call("insertRow", t, [NoArgs EXCEPT !.arg = index], r)

DeleteRow ==
  /\ Len(hist) < MaxOps
  /\ \E t \in Tables, index \in Indices :
      \E r \in {deleteRow(items, nodes, t, index)} :
         Call("deleteRow", t, [NoArgs EXCEPT !.arg = index], r)

\* a caller reads row.rowIndex of a Row it holds
RowIndex ==
  /\ Len(hist) < MaxOps
  /\ \E r \in Rows :
      \E res \in {rowIndex(items, nodes, r)} :
         Call("rowIndex", r, NoArgs, res)

Next == AddNode \/ AddText \/ Clear \/ InsertRow \/ DeleteRow \/ RowIndex

Spec == Init /\ [][Next]_vars

--------------------------------------------------------------------------
(* Copying: copyContentsFrom between any two Nodes, and attribute writes *)

CopyContentsFrom ==
  /\ Len(hist) < MaxOps
  /\ \E a \in NodeIds, other \in NodeIds :
      \E r \in {copyContentsFrom(items, nodes, a, other)} :
         Call("copyContentsFrom", a, [NoArgs EXCEPT !.arg = other], r)

SetAttrib ==
  /\ Len(hist) < MaxOps
  /\ \E n \in NodeIds :
      \E r \in {setAttrib(items, nodes, n, ATTR_VALUE, <<"9">>)} :
         Call("setAttrib", n, [NoArgs EXCEPT !.str = ATTR_VALUE], r)

NextCopy == CopyContentsFrom \/ SetAttrib

SpecCopy == Init /\ [][NextCopy]_vars

--------------------------------------------------------------------------
(* Lookup: single, dig and Document.spreadsheet *)

\* The number of lookups made on a document
MaxLookups == 1

LookupKeys == {"office:document-content", "office:body", TAG_SPREADSHEET, TAG_TABLE}

KeyPaths ==
  {<<k>> : k \in LookupKeys} \cup {<<k, l>> : k \in LookupKeys, l \in LookupKeys}

InitNav ==
  /\ items \in NavDocuments
  /\ nodes = Document(items)
  /\ hist = <<>>

Single ==
  /\ Len(hist) < MaxLookups
  /\ \E n \in NodeIds, key \in LookupKeys :
      \E r \in {Return(items, nodes, single(nodes, n, key))} :
         Call("single", n, [NoArgs EXCEPT !.str = key], r)

Dig ==
  /\ Len(hist) < MaxLookups
  /\ \E n \in NodeIds, keys \in KeyPaths :
      \E r \in {dig(items, nodes, n, keys)} :
         Call("dig", n, [NoArgs EXCEPT !.keys = keys], r)

Spreadsheet ==
  /\ Len(hist) < MaxLookups
  /\ \E n \in {m \in NodeIds : nodes[m].cls = "Document"} :
      \E r \in {spreadsheet(items, nodes, n)} :
         Call("spreadsheet", n, NoArgs, r)

NextNav == Single \/ Dig \/ Spreadsheet

SpecNav == InitNav /\ [][NextNav]_vars

--------------------------------------------------------------------------
(* Cells: adjustFormulae called on the cells of a one-row table *)

\* The number of calls made on a cell document
MaxCellOps == 1

\* The row indices a caller passes to adjustFormulae
MaxFromIndex == 4
FromIndices == 0..MaxFromIndex

InitCell ==
  /\ items \in CellDocuments
  /\ nodes = Document(items)
  /\ hist = <<>>

AdjustFormulae ==
  /\ Len(hist) < MaxCellOps
  /\ \E c \in Cells, fromIndex \in FromIndices, adjust \in {-1, 1} :
      \E r \in {adjustFormulae(items, nodes, c, fromIndex, adjust)} :
         Call("adjustFormulae", c, [NoArgs EXCEPT !.arg = fromIndex, !.arg2 = adjust], r)

NextCell == AdjustFormulae

SpecCell == InitCell /\ [][NextCell]_vars

--------------------------------------------------------------------------
(* What the calls are checked against *)

Last == hist[Len(hist)]
Called(op) == Len(hist) > 0 /\ Last.op = op

\* The Items a Node owns as children: item[name], none when there is no such key
ChildItems(its, ns, n) ==
  IF HasContained(its, ns, n) THEN contained(its, ns, n) ELSE <<>>

\* The child list of n matches the child Items of its Item, position by position
Corresponds(its, ns, n) ==
  /\ Len(ns[n].children) = Len(ChildItems(its, ns, n))
  /\ \A i \in 1..Len(ns[n].children) :
       ns[ns[n].children[i]].item = ChildItems(its, ns, n)[i]

\* The row children of a table, and the logical start index of the k-th of
\* them: the sum of the repeat counts of the rows before it, read from the
\* Items and from no cache
RowsOf(ns, t) == all(ns, t, TAG_ROW)

RECURSIVE StartIndex(_, _, _, _)
StartIndex(its, ns, rows, k) ==
  IF k <= 1 THEN 0
  ELSE StartIndex(its, ns, rows, k - 1) + RowsRepeated(its, ns, rows[k - 1])

StartIndices(its, ns, t) ==
  {StartIndex(its, ns, RowsOf(ns, t), k) : k \in 1..Len(RowsOf(ns, t))}

\* The content of an Item, without its identity: two Items are content-equal
\* when this is the same value (an empty attribute map counts as none)
RECURSIVE Content(_, _)
Content(its, i) ==
  [key |-> realKey(its[i]), hasText |-> its[i].hasText, text |-> its[i].text,
   attr |-> IF its[i].hasAttr THEN its[i].attr ELSE NoAttrib,
   kids |-> [k \in 1..Len(its[i].kids) |-> Content(its, its[i].kids[k])]]

RowContents(its, ns, t) ==
  [k \in 1..Len(ChildItems(its, ns, t)) |-> Content(its, ChildItems(its, ns, t)[k])]

OnlyRowCalls == \A i \in 1..Len(hist) : hist[i].op \in {"insertRow", "deleteRow", "rowIndex"}

\* C1: after any sequence of addNode, addText, insertRow, deleteRow and clear,
\* every Node's child list has the length of its Item's child sequence and
\* its i-th child wraps the i-th child Item.
C1_ChildItemCorrespondence == \A n \in NodeIds : Corresponds(items, nodes, n)

\* C1's case: a row was inserted into a table and a later call removed a row
\* of the same table.
C1_Witness ==
  \E i, j \in 1..Len(hist) :
    /\ i < j
    /\ hist[i].op = "insertRow" /\ hist[i].err = ""
    /\ hist[j].op = "deleteRow" /\ hist[j].err = "" /\ hist[j].self = hist[i].self
    /\ Len(nodes[hist[j].self].children) = Len(hist[i].nodes[hist[i].self].children)
    /\ nodes[hist[j].self].children # hist[i].nodes[hist[i].self].children

\* C2: after insertRow and deleteRow calls, reading rowIndex of a row that is
\* among a table's row children (also the row insertRow just returned, read
\* before any other) returns the sum of the repeat counts of the rows
\* before it.
C2_RowIndexIsPrefixSum ==
  (Called("rowIndex") /\ OnlyRowCalls) =>
     \A t \in 1..Len(Last.nodes) : \A k \in 1..Len(RowsOf(Last.nodes, t)) :
        (Last.nodes[t].cls = "Table" /\ RowsOf(Last.nodes, t)[k] = Last.self) =>
           /\ Last.err = ""
           /\ Last.ret = StartIndex(Last.items, Last.nodes, RowsOf(Last.nodes, t), k)

\* C3: insertRow(k) followed by deleteRow(k), k the start index of a row,
\* completes without failure and leaves the table's row Items content-equal
\* to the original ones, in the original order.
C3_InsertDeleteRoundTrip ==
  \A i \in 1..(Len(hist) - 1) :
    (/\ hist[i].op = "insertRow"
     /\ hist[i + 1].op = "deleteRow"
     /\ hist[i + 1].self = hist[i].self
     /\ hist[i + 1].arg = hist[i].arg
     /\ hist[i].arg \in StartIndices(hist[i].items, hist[i].nodes, hist[i].self)) =>
       LET after == IF i + 2 <= Len(hist) THEN hist[i + 2]
                    ELSE [items |-> items, nodes |-> nodes]
       IN /\ hist[i].err = ""
          /\ hist[i + 1].err = ""
          /\ RowContents(after.items, after.nodes, hist[i].self)
               = RowContents(hist[i].items, hist[i].nodes, hist[i].self)

\* C8: insertRow(k) fails with InvalidIndex exactly when no row of the table
\* has logical start index k, and then the Items, the child lists and the
\* attributes are as before the call.
C8_InsertRowInvalidIndex ==
  Called("insertRow") =>
    IF Last.arg \in StartIndices(Last.items, Last.nodes, Last.self)
    THEN Last.err = ""
    ELSE /\ Last.err = INVALID_INDEX
         /\ items = Last.items
         /\ \A n \in 1..Len(Last.nodes) : nodes[n].children = Last.nodes[n].children

--------------------------------------------------------------------------
(* Copying and lookup, checked *)

RECURSIVE Subtree(_, _)
\* The Nodes under n, n included, and the Items under i, i included
Subtree(ns, n) ==
  {n} \cup UNION {Subtree(ns, ns[n].children[k]) : k \in 1..Len(ns[n].children)}

RECURSIVE ItemsUnder(_, _)
ItemsUnder(its, i) ==
  {i} \cup UNION {ItemsUnder(its, its[i].kids[k]) : k \in 1..Len(its[i].kids)}

\* n is in the document: under the root, which is Node 1
InDocument(ns, n) == n \in Subtree(ns, 1)

\* C4: for A (not the root) and B anywhere in the document,
\* A.copyContentsFrom(B) succeeds, A keeps its position under the parent it
\* had, that parent's child Item there is content-equal to B's Item as it was,
\* and the copy is made of Items that did not exist before (it shares none
\* with B's subtree).
C4_CopyKeepsPositionAndContent ==
  (/\ Called("copyContentsFrom")
   /\ InDocument(Last.nodes, Last.self)
   /\ InDocument(Last.nodes, Last.arg)
   /\ Last.nodes[Last.self].parent # NoNode
   /\ Last.nodes[Last.arg].parent # NoNode) =>
     LET A == Last.self
         B == Last.arg
         P == Last.nodes[A].parent
         at == indexOf(Last.nodes[P].children, A) + 1
     IN /\ Last.err = ""
        /\ at <= Len(nodes[P].children)
        /\ nodes[P].children[at] = A
        /\ nodes[A].parent = P
        /\ Content(items, ChildItems(items, nodes, P)[at])
             = Content(Last.items, Last.nodes[B].item)
        /\ \A i \in ItemsUnder(items, ChildItems(items, nodes, P)[at]) :
             i > Len(Last.items)

\* C9: when copyContentsFrom fails because the node is not in its parent's
\* child list, the node's Item, name, parent and children and every Item and
\* child list are as before the call.
C9_FailedCopyChangesNothing ==
  (/\ Called("copyContentsFrom")
   /\ Last.nodes[Last.self].parent # NoNode
   /\ Last.err = NOT_IN_PARENT) =>
     /\ nodes[Last.self].item = Last.nodes[Last.self].item
     /\ nodes[Last.self].name = Last.nodes[Last.self].name
     /\ nodes[Last.self].parent = Last.nodes[Last.self].parent
     /\ nodes[Last.self].children = Last.nodes[Last.self].children
     /\ \A n \in 1..Len(Last.nodes) : nodes[n].children = Last.nodes[n].children
     /\ \A i \in 1..Len(Last.items) : items[i] = Last.items[i]

NOT_FOUND == "NotFound"

ChildrenNamed(ns, n, key) == all(ns, n, key)

\* C10: single(tagName) returns the first child of that tag and fails with
\* NotFound when there is none; dig fails at the first step without a match,
\* the last included; neither returns an absent value.
C10_LookupNeverAbsent ==
  /\ Called("single") =>
       IF Len(ChildrenNamed(Last.nodes, Last.self, Last.str)) > 0
       THEN Last.err = "" /\ Last.ret = ChildrenNamed(Last.nodes, Last.self, Last.str)[1]
       ELSE Last.err = NOT_FOUND
  /\ (Called("dig") \/ Called("spreadsheet")) =>
       (Last.err = "" => Last.ret # Undef)

--------------------------------------------------------------------------
(* adjustFormulae, checked *)

Formula(its, ns, c) == attrib(its, ns, c)[ATTR_FORMULA]

\* The terms of a formula after adjustFormulae(fromIndex, adjust): a row
\* number r of a bracketed reference or range becomes r + adjust when
\* r - 1 > fromIndex; nothing else changes.
ShiftRow(r, fromIndex, adjust) == IF r - 1 > fromIndex THEN r + adjust ELSE r

ShiftTerm(t, fromIndex, adjust) ==
  IF t.kind = "ref" THEN [t EXCEPT !.row = ShiftRow(@, fromIndex, adjust)]
  ELSE IF t.kind = "range"
  THEN [t EXCEPT !.row = ShiftRow(@, fromIndex, adjust),
                 !.row2 = ShiftRow(@, fromIndex, adjust)]
  ELSE t

ShiftShape(sh, fromIndex, adjust) ==
  IF Len(sh) = 1 THEN <<ShiftTerm(sh[1], fromIndex, adjust)>>
  ELSE <<ShiftTerm(sh[1], fromIndex, adjust), ShiftTerm(sh[2], fromIndex, adjust)>>

\* The same with the boundary of the sentence as written: r > fromRowIndex
ShiftRowAsWritten(r, fromIndex, adjust) == IF r > fromIndex THEN r + adjust ELSE r

ShiftTermAsWritten(t, fromIndex, adjust) ==
  IF t.kind = "ref" THEN [t EXCEPT !.row = ShiftRowAsWritten(@, fromIndex, adjust)]
  ELSE IF t.kind = "range"
  THEN [t EXCEPT !.row = ShiftRowAsWritten(@, fromIndex, adjust),
                 !.row2 = ShiftRowAsWritten(@, fromIndex, adjust)]
  ELSE t

ShiftShapeAsWritten(sh, fromIndex, adjust) ==
  IF Len(sh) = 1 THEN <<ShiftTermAsWritten(sh[1], fromIndex, adjust)>>
  ELSE <<ShiftTermAsWritten(sh[1], fromIndex, adjust),
         ShiftTermAsWritten(sh[2], fromIndex, adjust)>>

\* adjustFormulae was called on a cell that had a formula
Adjusted ==
  /\ Called("adjustFormulae")
  /\ HasAttrib(Last.items, Last.nodes, Last.self, ATTR_FORMULA)

FormulaBefore == Formula(Last.items, Last.nodes, Last.self)
FormulaAfter == Formula(items, nodes, Last.self)

Bare_A5_B2 == <<".", "A", "5", "+", ".", "B", "2">>
Bare_A6_B2 == <<".", "A", "6", "+", ".", "B", "2">>
Bracketed_A5_B2 == <<"[", ".", "A", "5", "]", "+", "[", ".", "B", "2", "]">>
Bracketed_A6_B2 == <<"[", ".", "A", "6", "]", "+", "[", ".", "B", "2", "]">>

\* C5 as written: the formula .A5+.B2 becomes .A6+.B2 under
\* adjustFormulae(3, +1).
C5_BareFormulaShifted ==
  (Adjusted /\ Last.arg = 3 /\ Last.arg2 = 1 /\ FormulaBefore = Bare_A5_B2) =>
     (HasAttrib(items, nodes, Last.self, ATTR_FORMULA) /\ FormulaAfter = Bare_A6_B2)

\* C5, amended: under adjustFormulae(3, +1) the formula [.A5]+[.B2] becomes
\* [.A6]+[.B2], and .A5+.B2, whose references stand outside brackets, stays
\* as it is.
C5_BracketedFormulaShifted ==
  (Adjusted /\ Last.arg = 3 /\ Last.arg2 = 1) =>
     /\ HasAttrib(items, nodes, Last.self, ATTR_FORMULA)
     /\ FormulaBefore = Bracketed_A5_B2 => FormulaAfter = Bracketed_A6_B2
     /\ FormulaBefore = Bare_A5_B2 => FormulaAfter = Bare_A5_B2

C5_Witness ==
  /\ Adjusted /\ Last.arg = 3 /\ Last.arg2 = 1
  /\ FormulaBefore = Bracketed_A5_B2
  /\ FormulaAfter = Bracketed_A6_B2

\* C6 as written: every bracketed reference with row number r > fromRowIndex
\* becomes r + delta, the others and the rest of the text are unchanged.
C6_ShiftAboveFromIndex ==
  Adjusted =>
    \A sh \in FormulaShapes :
      Render(sh) = FormulaBefore =>
        FormulaAfter = Render(ShiftShapeAsWritten(sh, Last.arg, Last.arg2))

\* C6, amended: every bracketed reference with row number r such that
\* r - 1 > fromRowIndex becomes r + delta; the references with
\* r - 1 <= fromRowIndex, the column letters and the rest of the text are
\* unchanged.
C6_ShiftBelowBoundary ==
  Adjusted =>
    \A sh \in FormulaShapes :
      Render(sh) = FormulaBefore =>
        /\ HasAttrib(items, nodes, Last.self, ATTR_FORMULA)
        /\ FormulaAfter = Render(ShiftShape(sh, Last.arg, Last.arg2))

\* C6's case: in [.A5:.B10] with fromIndex 4 and delta -1 the row 5, which
\* is fromIndex + 1, stays and the row 10 becomes 9.
C6_Witness ==
  /\ Adjusted /\ Last.arg = 4 /\ Last.arg2 = -1
  /\ FormulaBefore = Render(<<Term("range", <<"A">>, 5, <<"B">>, 10)>>)
  /\ FormulaAfter = Render(<<Term("range", <<"A">>, 5, <<"B">>, 9)>>)

\* No bracketed reference of the formula lies past the boundary
NoneShifted(sh, fromIndex) ==
  \A k \in 1..Len(sh) :
    /\ sh[k].kind \in {"ref", "range"} => ~(sh[k].row - 1 > fromIndex)
    /\ sh[k].kind = "range" => ~(sh[k].row2 - 1 > fromIndex)

\* C7: when adjustFormulae rewrites no reference (the cell has no formula, or
\* no reference is past the boundary) the cell is left as it was: formula,
\* value and string-value attributes, type attributes and children.
C7_NoRewriteNoChange ==
  Called("adjustFormulae") =>
    ((\/ ~HasAttrib(Last.items, Last.nodes, Last.self, ATTR_FORMULA)
      \/ \E sh \in FormulaShapes :
           Render(sh) = FormulaBefore /\ NoneShifted(sh, Last.arg)) =>
       /\ Last.err = ""
       /\ items = Last.items
       /\ nodes = Last.nodes)

\* C7's case: [.A5] with fromIndex 4 is at the boundary and is not rewritten;
\* the cell still has its cached value and its text child.
C7_Witness ==
  /\ Adjusted /\ Last.arg = 4 /\ Last.arg2 = 1
  /\ FormulaBefore = Render(<<Term("ref", <<"A">>, 5, <<>>, 0)>>)
  /\ FormulaAfter = FormulaBefore
  /\ HasAttrib(items, nodes, Last.self, ATTR_VALUE)
  /\ HasAttrib(items, nodes, Last.self, ATTR_STRING_VALUE)
  /\ Len(nodes[Last.self].children) = 1

--------------------------------------------------------------------------
(* deleteRow, checked *)

\* The positions among the rows of table t, before the last call, whose
\* logical start index is k
RowsStartingAt(k) ==
  {p \in 1..Len(RowsOf(Last.nodes, Last.self)) :
     StartIndex(Last.items, Last.nodes, RowsOf(Last.nodes, Last.self), p) = k}

\* C11: deleteRow(k) with k the start index of no row returns without error
\* and leaves the Items and every child list as they were; with a matching k
\* it removes exactly one child, at one position of the table's Item
\* sequence and of its Node list.
C11_DeleteRowFrame ==
  Called("deleteRow") =>
    /\ Last.err = ""
    /\ IF RowsStartingAt(Last.arg) = {}
       THEN /\ items = Last.items
            /\ \A n \in 1..Len(Last.nodes) : nodes[n].children = Last.nodes[n].children
       ELSE \E at \in 0..(Len(Last.nodes[Last.self].children) - 1) :
              /\ nodes[Last.self].children
                   = SpliceOut(Last.nodes[Last.self].children, at)
              /\ ChildItems(items, nodes, Last.self)
                   = SpliceOut(ChildItems(Last.items, Last.nodes, Last.self), at)

--------------------------------------------------------------------------
(* Editing cells: deleteAttrib, setFormula and adjustFormulae on the Nodes
   of a one-row table *)

EditDocuments == {CellDoc(Render(<<t>>)) : t \in RefTerms({<<"A">>, <<"B">>})}

\* The attribute keys, formulas and value types a caller passes
EditKeys == {ATTR_VALUE, ATTR_FORMULA}
EditFormulas == {<<"1", "+", "1">>, Bracketed_A5_B2}
EditTypes == {<<"float">>, <<"string">>}

InitEdit ==
  /\ items \in EditDocuments
  /\ nodes = Document(items)
  /\ hist = <<>>

DeleteAttrib ==
  /\ Len(hist) < MaxCellOps
  /\ \E n \in NodeIds, key \in EditKeys :
      \E r \in {deleteAttrib(items, nodes, n, key)} :
         Call("deleteAttrib", n, [NoArgs EXCEPT !.str = key], r)

\* setFormula(formula) and setFormula(formula, type): arg is 1 when a type
\* is given, keys holds the formula and the type
SetFormula ==
  /\ Len(hist) < MaxCellOps
  /\ \E c \in Cells, formula \in EditFormulas :
       \/ \E r \in {setFormula(items, nodes, c, formula, FALSE, <<>>)} :
            Call("setFormula", c, [NoArgs EXCEPT !.keys = <<formula, <<>> >>], r)
       \/ \E type \in EditTypes :
            \E r \in {setFormula(items, nodes, c, formula, TRUE, type)} :
              Call("setFormula", c,
                   [NoArgs EXCEPT !.arg = 1, !.keys = <<formula, type>>], r)

NextEdit == DeleteAttrib \/ SetFormula \/ AdjustFormulae

SpecEdit == InitEdit /\ [][NextEdit]_vars

\* The Item of the Node the last call was made on, before and after it
ItemBefore == Last.items[Last.nodes[Last.self].item]
ItemAfter == items[nodes[Last.self].item]

\* C12 as written: deleteAttrib(key) on a node whose Item has no attribute
\* map does not fail and leaves the Item exactly as it was, no attribute map
\* added.
C12_DeleteAttribAddsNothing ==
  (Called("deleteAttrib") /\ ~ItemBefore.hasAttr) =>
     /\ Last.err = ""
     /\ ItemAfter = ItemBefore

\* C12, amended: deleteAttrib(key) on a node whose Item has no attribute map
\* does not fail and returns the node; afterwards the Item has an attribute
\* map with no attribute in it and is otherwise as before, and nothing else
\* has changed.
C12_DeleteAttribAddsEmptyMap ==
  (Called("deleteAttrib") /\ ~ItemBefore.hasAttr) =>
     /\ Last.err = ""
     /\ Last.ret = Last.self
     /\ ItemAfter = [ItemBefore EXCEPT !.hasAttr = TRUE, !.attr = NoAttrib]
     /\ DOMAIN attrib(items, nodes, Last.self) = {}
     /\ \A i \in 1..Len(Last.items) :
          i # Last.nodes[Last.self].item => items[i] = Last.items[i]
     /\ nodes = Last.nodes

\* C12's case: deleteAttrib was called on the row, whose Item has no
\* attribute map, and the Item has one now.
C12_Witness ==
  /\ Called("deleteAttrib")
  /\ Last.nodes[Last.self].cls = "Row"
  /\ ~ItemBefore.hasAttr
  /\ ItemAfter.hasAttr
  /\ ItemAfter.kids = ItemBefore.kids

\* C14: after setFormula(formula, type?) returns, called directly or by
\* adjustFormulae, the cell has the formula attribute equal to the formula,
\* has neither the value nor the string-value attribute, has no children in
\* its Item sequence or its Node list, and has both value-type attributes
\* equal to type when a type is given.
FormulaCellOf(c, formula) ==
  /\ HasAttrib(items, nodes, c, ATTR_FORMULA)
  /\ Formula(items, nodes, c) = formula
  /\ ~HasAttrib(items, nodes, c, ATTR_VALUE)
  /\ ~HasAttrib(items, nodes, c, ATTR_STRING_VALUE)
  /\ nodes[c].children = <<>>
  /\ ChildItems(items, nodes, c) = <<>>

HasTypes(c, type) ==
  /\ HasAttrib(items, nodes, c, ATTR_VALUE_TYPE)
  /\ attrib(items, nodes, c)[ATTR_VALUE_TYPE] = type
  /\ HasAttrib(items, nodes, c, ATTR_CALCEXT_TYPE)
  /\ attrib(items, nodes, c)[ATTR_CALCEXT_TYPE] = type

C14_SetFormulaPostconditions ==
  /\ Called("setFormula") =>
       /\ Last.err = ""
       /\ FormulaCellOf(Last.self, Last.keys[1])
       /\ Last.arg = 1 => HasTypes(Last.self, Last.keys[2])
  /\ Adjusted =>
       \A sh \in FormulaShapes :
         (Render(sh) = FormulaBefore /\ ~NoneShifted(sh, Last.arg)) =>
            /\ Last.err = ""
            /\ FormulaCellOf(Last.self, Render(ShiftShape(sh, Last.arg, Last.arg2)))

\* C14's case: setFormula was called with a type on a cell that had a cached
\* value, a cached string value, another value type and a text child.
C14_Witness ==
  /\ Called("setFormula") /\ Last.arg = 1
  /\ HasAttrib(Last.items, Last.nodes, Last.self, ATTR_VALUE)
  /\ HasAttrib(Last.items, Last.nodes, Last.self, ATTR_STRING_VALUE)
  /\ HasAttrib(Last.items, Last.nodes, Last.self, ATTR_VALUE_TYPE)
  /\ attrib(Last.items, Last.nodes, Last.self)[ATTR_VALUE_TYPE] # Last.keys[2]
  /\ Len(Last.nodes[Last.self].children) = 1
  /\ FormulaCellOf(Last.self, Last.keys[1])
  /\ HasTypes(Last.self, Last.keys[2])

--------------------------------------------------------------------------
(* NodeSet.indexByAttrib and Spreadsheet.tables *)

\* The property key an undefined attribute value is coerced to
UNDEFINED_KEY == <<"u", "n", "d", "e", "f", "i", "n", "e", "d">>

\* n.attrib[attribKey]! as a property key
AttribAsKey(its, ns, n, attribKey) ==
  IF HasAttrib(its, ns, n, attribKey) THEN attrib(its, ns, n)[attribKey]
  ELSE UNDEFINED_KEY

\* An assignment that keeps the Node a key already has
AssignIfAbsent(obj, key, n) ==
  IF key \in DOMAIN obj THEN obj ELSE Put(obj, key, n)

\* obj[key] = n
Assign(obj, key, n) == Put(obj, key, n)

RECURSIVE IndexFrom(_, _, _, _, _, _)
\* this.forEach((n) => { obj[n.attrib[attribKey]!] = n; })
IndexFrom(its, ns, set, i, attribKey, obj) ==
  IF i > Len(set) THEN obj
  ELSE Let(Assign(obj, AttribAsKey(its, ns, set[i], attribKey), set[i]), LAMBDA obj1 :
         IndexFrom(its, ns, set, i + 1, attribKey, obj1))

\* set.indexByAttrib(attribKey): the Record as a function from keys to Nodes
indexByAttrib(its, ns, set, attribKey) ==
  Return(its, ns, IndexFrom(its, ns, set, 1, attribKey, NoAttrib))

\* Spreadsheet.tables()
tables(its, ns, n) == indexByAttrib(its, ns, all(ns, n, TAG_TABLE), ATTR_NAME)

\* A spreadsheet of three tables, each with a name or without one; the first
\* table has two rows of one repeat count.
TableNames == {<<"T">>, <<"U">>}
NameAttrib(name) == IF name = <<>> THEN NoAttrib ELSE (ATTR_NAME :> name)

IndexDoc(n1, n2, n3) ==
  << Element("", FALSE, NoAttrib, <<2>>),
     Element(TAG_SPREADSHEET, FALSE, NoAttrib, <<3, 4, 5>>),
     Element(TAG_TABLE, n1 # <<>>, NameAttrib(n1), <<6, 7>>),
     Element(TAG_TABLE, n2 # <<>>, NameAttrib(n2), <<>>),
     Element(TAG_TABLE, n3 # <<>>, NameAttrib(n3), <<>>),
     Element(TAG_ROW, TRUE, (ATTR_ROWS_REPEATED :> <<"2">>), <<>>),
     Element(TAG_ROW, TRUE, (ATTR_ROWS_REPEATED :> <<"2">>), <<>>) >>

IndexDocuments ==
  {IndexDoc(n1, n2, n3) : n1 \in TableNames \cup {<<>>},
                          n2 \in TableNames \cup {<<>>},
                          n3 \in TableNames \cup {<<>>}}

InitIndex ==
  /\ items \in IndexDocuments
  /\ nodes = Document(items)
  /\ hist = <<>>

\* node.all(tag).indexByAttrib(attribKey): str is the tag, keys the key
IndexByAttrib ==
  /\ Len(hist) < MaxLookups
  /\ \E n \in NodeIds, tag \in {TAG_TABLE, TAG_ROW},
        attribKey \in {ATTR_NAME, ATTR_ROWS_REPEATED} :
      \E r \in {indexByAttrib(items, nodes, all(nodes, n, tag), attribKey)} :
         Call("indexByAttrib", n, [NoArgs EXCEPT !.str = tag, !.keys = <<attribKey>>], r)

TablesOf ==
  /\ Len(hist) < MaxLookups
  /\ \E n \in {m \in NodeIds : nodes[m].cls = "Spreadsheet"} :
      \E r \in {tables(items, nodes, n)} :
         Call("tables", n, [NoArgs EXCEPT !.str = TAG_TABLE, !.keys = <<ATTR_NAME>>], r)

NextIndex == IndexByAttrib \/ TablesOf

SpecIndex == InitIndex /\ [][NextIndex]_vars

\* The NodeSet the last call indexed, and the positions in it of the Nodes
\* that carry the value v of the attribute
IndexedSet == SelectSeq(Last.nodes[Last.self].children,
                        LAMBDA c : Last.nodes[c].name = Last.str)

Carrying(v) ==
  {p \in 1..Len(IndexedSet) :
     /\ HasAttrib(Last.items, Last.nodes, IndexedSet[p], Last.keys[1])
     /\ attrib(Last.items, Last.nodes, IndexedSet[p])[Last.keys[1]] = v}

LastOf(ps) == CHOOSE p \in ps : \A q \in ps : q <= p

\* C13: indexByAttrib(key) maps each attribute value that occurs to the last
\* node in document order carrying it; Spreadsheet.tables() with two tables
\* of one name yields the later one under that name; duplicates are not an
\* error.
C13_IndexByAttribLastWins ==
  (Called("indexByAttrib") \/ Called("tables")) =>
     /\ Last.err = ""
     /\ \A p \in 1..Len(IndexedSet) :
          HasAttrib(Last.items, Last.nodes, IndexedSet[p], Last.keys[1]) =>
            LET v == attrib(Last.items, Last.nodes, IndexedSet[p])[Last.keys[1]]
            IN /\ v \in DOMAIN Last.ret
               /\ Last.ret[v] = IndexedSet[LastOf(Carrying(v))]

\* C13's case: tables() on a spreadsheet whose first and third tables share
\* a name the second does not have; the name yields the third.
C13_Witness ==
  /\ Called("tables")
  /\ Len(IndexedSet) = 3
  /\ Carrying(<<"T">>) = {1, 3}
  /\ Carrying(<<"U">>) = {2}
  /\ Last.ret[<<"T">>] = IndexedSet[3]
  /\ Last.ret[<<"U">>] = IndexedSet[2]

--------------------------------------------------------------------------
(* insertRow, checked *)

\* The position (from 0) among the children of the table, before the last
\* call, of the row whose logical start index is k
PositionOfRowAt(k) ==
  indexOf(Last.nodes[Last.self].children,
          RowsOf(Last.nodes, Last.self)[LastOf(RowsStartingAt(k))])

\* C15: a successful insertRow(k) adds exactly one child to the table, a new
\* empty row Item immediately before the row whose logical start index was
\* k, at the same position in the Item sequence and in the Node list; the
\* children there were keep their order and their Items.
C15_InsertRowPlacement ==
  (Called("insertRow") /\ Last.err = "") =>
     /\ RowsStartingAt(Last.arg) # {}
     /\ Last.ret > Len(Last.nodes)
     /\ nodes[Last.ret].item > Len(Last.items)
     /\ items[nodes[Last.ret].item] = Element(TAG_ROW, FALSE, NoAttrib, <<>>)
     /\ nodes[Last.ret].children = <<>>
     /\ nodes[Last.self].children
          = SpliceIn(Last.nodes[Last.self].children, PositionOfRowAt(Last.arg), Last.ret)
     /\ ChildItems(items, nodes, Last.self)
          = SpliceIn(ChildItems(Last.items, Last.nodes, Last.self),
                     PositionOfRowAt(Last.arg), nodes[Last.ret].item)
     /\ \A c \in 1..Len(Last.nodes) : nodes[c].item = Last.nodes[c].item

\* C15's case: insertRow(2) on the table with rows starting at 0, 2, 3 and 6
\* put the new row second, before the row that started at 2.
C15_Witness ==
  /\ Called("insertRow") /\ Last.err = "" /\ Last.arg = 2
  /\ Len(Last.nodes[Last.self].children) = 4
  /\ Len(nodes[Last.self].children) = 5
  /\ nodes[Last.self].children[2] = Last.ret
  /\ nodes[Last.self].children[3] = Last.nodes[Last.self].children[2]

--------------------------------------------------------------------------
(* The whole tree: every structural call, copyContentsFrom and root *)

NON_TERMINATION == "does not terminate"

RECURSIVE RootFrom(_, _, _, _)
\* while (i.parent !== undefined) i = i.parent: the loop never ends once it
\* comes back to a Node it has left
RootFrom(its, ns, i, left) ==
  IF ns[i].parent = NoNode THEN Return(its, ns, i)
  ELSE IF ns[i].parent \in left \cup {i} THEN Throw(its, ns, NON_TERMINATION)
  ELSE Let(left \cup {i}, LAMBDA left1 :
         RootFrom(its, ns, ns[i].parent, left1))

\* node.root()
root(its, ns, n) == RootFrom(its, ns, n, {})

\* A spreadsheet of one table of three rows, none repeated, of one cell each:
\* the cell of a row refers to the two other rows.
PlainRef(r) == Term("ref", <<"A">>, r, <<>>, 0)

PlainDoc ==
  << Element("", FALSE, NoAttrib, <<2>>),
     Element(TAG_SPREADSHEET, FALSE, NoAttrib, <<3>>),
     Element(TAG_TABLE, FALSE, NoAttrib, <<4, 5, 6>>),
     Element(TAG_ROW, FALSE, NoAttrib, <<7>>),
     Element(TAG_ROW, FALSE, NoAttrib, <<8>>),
     Element(TAG_ROW, FALSE, NoAttrib, <<9>>),
     Element(TAG_CELL, TRUE,
             (ATTR_FORMULA :> Render(<<PlainRef(2), PlainRef(3)>>)), <<>>),
     Element(TAG_CELL, TRUE,
             (ATTR_FORMULA :> Render(<<PlainRef(1), PlainRef(3)>>)), <<>>),
     Element(TAG_CELL, TRUE,
             (ATTR_FORMULA :> Render(<<PlainRef(1), PlainRef(2)>>)), <<>>) >>

TreeDocuments == {TableDoc, OfficeDoc, PlainDoc}

InitTree ==
  /\ items \in TreeDocuments
  /\ nodes = Document(items)
  /\ hist = <<>>

Root ==
  /\ Len(hist) < MaxOps
  /\ \E n \in NodeIds :
      \E r \in {root(items, nodes, n)} :
         Call("root", n, NoArgs, r)

NextTree ==
  \/ AddNode \/ AddText \/ Clear \/ InsertRow \/ DeleteRow \/ RowIndex
  \/ CopyContentsFrom \/ Root

SpecTree == InitTree /\ [][NextTree]_vars

--------------------------------------------------------------------------
(* The whole tree, checked *)

\* The Nodes of class Table in the document
TablesInDocument == {t \in Subtree(nodes, 1) : nodes[t].cls = "Table"}

\* C16: in every state reached by insertRow, deleteRow, addNode, clear and
\* copyContentsFrom (with reads of rowIndex between them), every Row among
\* the rows of a table that holds a cached index holds the sum of the repeat
\* counts of the rows before it (stated here for the tables all of whose
\* rows are Rows, after calls that all succeeded).
C16_NoStaleCachedIndex ==
  (\A i \in 1..Len(hist) : hist[i].err = "") =>
    \A t \in TablesInDocument :
      (\A p \in 1..Len(RowsOf(nodes, t)) : nodes[RowsOf(nodes, t)[p]].cls = "Row") =>
        \A p \in 1..Len(RowsOf(nodes, t)) :
          nodes[RowsOf(nodes, t)[p]].rowIndex # Undef =>
            nodes[RowsOf(nodes, t)[p]].rowIndex
              = StartIndex(items, nodes, RowsOf(nodes, t), p)

\* C17: every Node listed in the children of a Node N has N as its parent,
\* and only the document root has no parent; the row insertRow returns has
\* the table as its parent.
C17_ParentLinks ==
  /\ \A n \in NodeIds : \A p \in 1..Len(nodes[n].children) :
       nodes[nodes[n].children[p]].parent = n
  /\ \A n \in Subtree(nodes, 1) : n # 1 => nodes[n].parent # NoNode
  /\ (Called("insertRow") /\ Last.err = "") => nodes[Last.ret].parent = Last.self

\* The class a name dispatches to: the document root and the text Nodes have
\* the name ""
VariantOf(its, ns, n) ==
  IF n = 1 THEN "Document"
  ELSE IF ns[n].name = "" /\ its[ns[n].item].hasText THEN "TextNode"
  ELSE IF ns[n].name = TAG_SPREADSHEET THEN "Spreadsheet"
  ELSE IF ns[n].name = TAG_TABLE THEN "Table"
  ELSE IF ns[n].name = TAG_ROW THEN "Row"
  ELSE IF ns[n].name = TAG_CELL THEN "Cell"
  ELSE "Node"

\* C18: after any sequence of calls every Node of the tree is of the class
\* its name dispatches to, the generic Node for an unrecognized name (stated
\* here for the states a successful call has led to).
C18_VariantAgreesWithName ==
  (Len(hist) > 0 /\ Last.err = "") =>
     \A n \in Subtree(nodes, 1) : nodes[n].cls = VariantOf(items, nodes, n)

\* C19: root() called on any Node, after any calls, failed copyContentsFrom
\* calls among them, terminates and returns the document root, which has no
\* parent.
C19_RootTerminates ==
  Called("root") =>
     /\ Last.err = ""
     /\ Last.ret = 1
     /\ nodes[Last.ret].parent = NoNode

\* The formulas of two bracketed references to rows 1 to 5 of column A
PlainShapes == {<<PlainRef(r1), PlainRef(r2)>> : r1 \in 1..5, r2 \in 1..5}

\* The reference to the row at logical index j, written j + 1, after a row
\* was inserted at k: still the same row, which is now at j + 1 when j >= k
SameRowAfterInsert(t, k) == IF t.row - 1 >= k THEN [t EXCEPT !.row = @ + 1] ELSE t

\* C20: after a successful insertRow(k) on a table without repeated rows,
\* every bracketed reference designates the row it designated before: the
\* reference to the row at index j is incremented when j >= k, j = k
\* included, and unchanged when j < k.
C20_ReferencesFollowRows ==
  (/\ Called("insertRow") /\ Last.err = ""
   /\ \A p \in 1..Len(RowsOf(Last.nodes, Last.self)) :
        ~HasAttrib(Last.items, Last.nodes, RowsOf(Last.nodes, Last.self)[p],
                   ATTR_ROWS_REPEATED)) =>
     \A c \in 1..Len(Last.nodes) :
       (/\ Last.nodes[c].cls = "Cell"
        /\ Last.nodes[c].parent # NoNode
        /\ Last.nodes[Last.nodes[c].parent].parent = Last.self
        /\ HasAttrib(Last.items, Last.nodes, c, ATTR_FORMULA)) =>
          \A sh \in PlainShapes :
            Render(sh) = Formula(Last.items, Last.nodes, c) =>
              /\ HasAttrib(items, nodes, c, ATTR_FORMULA)
              /\ Formula(items, nodes, c)
                   = Render(<<SameRowAfterInsert(sh[1], Last.arg),
                              SameRowAfterInsert(sh[2], Last.arg)>>)

====
